---- MODULE Spec2Model ----
(***************************************************************************)
(* A model of the BCN multishot toolset (georgeantonopoulos/Nuke):         *)
(*   - the toolset's start-up (init.py) and the host's render lifecycle,   *)
(*     against which the render-time scope invariant of the specification  *)
(*     is stated;                                                          *)
(*   - gsv_utils.ensure_screen_list on the root scope-variable knob;       *)
(*   - render_hooks: encapsulate_write_with_variable_group,                *)
(*     WriteKnobPromoter.expose and refresh_variable_group_links;          *)
(*   - elbows.organize_node_streams and split_lightgroups_from_pass on a   *)
(*     positioned node graph.                                              *)
(* The host application (nodes, knobs, scope variables, render callbacks)  *)
(* is modelled only as far as the toolset's calls into it need.            *)
(***************************************************************************)
EXTENDS Integers, Sequences, FiniteSets, TLC

VARIABLES
    booted,     \* init.py has run
    hooks,      \* render callbacks registered with the host
    saved,      \* the toolset's save/restore stack of scope values
    gsvType,    \* data type of the scope variable __default__.screen
    gsvOptions, \* its list options
    gsvValue,   \* its value: the global scope variable
    renders,    \* renders in progress, outermost first
    ended,      \* the render that completed last (history)
    lastCall,   \* the last ensure_screen_list call (history)
    nodes,      \* the node graph: node id -> node
    selected,   \* the selected nodes
    undoDepth,  \* open undo blocks
    lastOp,     \* the last render_hooks call and what it did (history)
    dag,        \* the positioned node graph the layout tools work on
    dagSel,     \* the nodes selected in it
    dagOp       \* the last layout-tool call and the graph before it (history)

renderVars == <<booted, hooks, saved, renders, ended>>
gsvVars == <<gsvType, gsvOptions, gsvValue>>
wrapVars == <<nodes, selected, undoDepth, lastOp>>
dagVars == <<dag, dagSel, dagOp>>
vars == <<booted, hooks, saved, gsvType, gsvOptions, gsvValue, renders, ended,
          lastCall, nodes, selected, undoDepth, lastOp, dag, dagSel, dagOp>>

\* ------------------------------------------------------------------ bounds

\* deepest nesting of re-entrant renders
MaxDepth == 3

\* most consecutive runs of organize_node_streams on one selection
MaxRuns == 2

\* longest list of screens passed to ensure_screen_list
MaxLen == 2

\* most names in a whitelist an artist types
MaxCsv == 1

\* ------------------------------------------------------- values and helpers

\* screen names: values of the scope variable and of a node's scope field
Screens == {"A", "B", "C"}

\* Python's None, distinct from every string
None == "<None>"

\* Python truthiness of an Optional[str]
Truthy(x) == x # None /\ x # ""

Last(s) == s[Len(s)]
Front(s) == SubSeq(s, 1, Len(s) - 1)

NoCall == [called |-> FALSE, screens |-> <<>>, default |-> "", avail |-> FALSE, before |-> ""]

NoRender == [done |-> FALSE, scope |-> "A", pre |-> "A", outcome |-> "ok", after |-> "A"]

\* ------------------------------------------------ start-up: init.py

\* the names render_hooks.py binds at module level
RenderHooksNames ==
    { "nuke", "dataclass", "Dict", "List", "Optional",
      "_RESERVED_KNOBS", "_DEFAULT_WRITE_KNOBS",
      "_sanitize_knob_scripts", "_sanitize_group_knob_scripts",
      "_ensure_tab", "_add_link_knob", "_ensure_management_tab",
      "WritePromoteConfig", "WriteKnobPromoter",
      "_find_internal_node", "_collapse_into_variable_group",
      "refresh_variable_group_links",
      "encapsulate_write_with_variable_group", "__all__" }

\* what install_render_callbacks would register: the frame-evaluation pair
InstallRenderCallbacks == {"beforeFrameRender", "afterFrameRender"}

\* a start-up that registers the save-and-set hook without its restore hook
InitPyHooks_BeforeOnly == {"beforeFrameRender"}

\* init.py: `from render_hooks import install_render_callbacks` inside
\* try/except Exception: pass.  The import raises ImportError when the module
\* does not bind the name, and then nothing is registered.
InitPyHooks ==
    IF "install_render_callbacks" \in RenderHooksNames
    THEN InstallRenderCallbacks
    ELSE {}

InitPy ==
    /\ ~booted
    /\ booted' = TRUE
    /\ hooks' = InitPyHooks
    /\ UNCHANGED <<saved, renders, ended, gsvVars, lastCall, wrapVars, dagVars>>

\* ------------------------------------------- the host's render lifecycle

\* the save-and-set step of the specification's invariant
SaveAndSetStack(scope) == Append(saved, gsvValue)
SaveAndSetValue(scope) == scope

\* the restore step: pop the stack into the global scope variable
RestoreStack == IF saved = <<>> THEN saved ELSE Front(saved)
RestoreValue == IF saved = <<>> THEN gsvValue ELSE Last(saved)

\* The host starts a render of a node whose scope field is `scope`; it may do
\* so re-entrantly while a frame of another render is being evaluated.
RenderBegin(scope) ==
    /\ booted
    /\ Len(renders) < MaxDepth
    /\ renders # <<>> => Last(renders).phase = "frame"
    /\ renders' = Append(renders,
          [scope |-> scope, pre |-> gsvValue, phase |-> "begun", resolved |-> gsvValue])
    /\ UNCHANGED <<booted, hooks, saved, ended, gsvVars, lastCall, wrapVars, dagVars>>

\* The host evaluates a frame of the innermost render: it runs the registered
\* before-frame callbacks and then resolves the scope variables.
FrameBegin ==
    /\ renders # <<>>
    /\ Last(renders).phase = "begun"
    /\ LET top == Last(renders)
           on == "beforeFrameRender" \in hooks
           v == IF on THEN SaveAndSetValue(top.scope) ELSE gsvValue
       IN /\ saved' = IF on THEN SaveAndSetStack(top.scope) ELSE saved
          /\ gsvValue' = v
          /\ renders' = [renders EXCEPT ![Len(renders)] =
                            [top EXCEPT !.phase = "frame", !.resolved = v]]
    /\ UNCHANGED <<booted, hooks, ended, gsvType, gsvOptions, lastCall, wrapVars, dagVars>>

\* The frame of the innermost render ends, successfully or not; the host runs
\* the registered after-frame callbacks.  A failure ends the render with it.
FrameEnd(outcome) ==
    /\ renders # <<>>
    /\ Last(renders).phase = "frame"
    /\ LET top == Last(renders)
           on == "afterFrameRender" \in hooks
           v == IF on THEN RestoreValue ELSE gsvValue
       IN /\ saved' = IF on THEN RestoreStack ELSE saved
          /\ gsvValue' = v
          /\ IF outcome = "ok"
             THEN /\ renders' = [renders EXCEPT ![Len(renders)] =
                                    [top EXCEPT !.phase = "begun"]]
                  /\ ended' = ended
             ELSE /\ renders' = Front(renders)
                  /\ ended' = [done |-> TRUE, scope |-> top.scope, pre |-> top.pre,
                               outcome |-> outcome, after |-> v]
    /\ UNCHANGED <<booted, hooks, gsvType, gsvOptions, lastCall, wrapVars, dagVars>>

\* The innermost render completes between frames.
RenderEnd ==
    /\ renders # <<>>
    /\ Last(renders).phase = "begun"
    /\ LET top == Last(renders)
       IN /\ renders' = Front(renders)
          /\ ended' = [done |-> TRUE, scope |-> top.scope, pre |-> top.pre,
                       outcome |-> "ok", after |-> gsvValue]
    /\ UNCHANGED <<booted, hooks, saved, gsvVars, lastCall, wrapVars, dagVars>>


\* ------------------------------------------------ gsv_utils.py

SeqsUpTo(S, n) == UNION { [1..k -> S] : k \in 0..n }

\* get_root_gsv_knob(): the knob, or None when the host is not there
get_root_gsv_knob(avail) == avail

\* ensure_list_datatype(path): gsv.setDataType(path, List); no-op without knob
ensure_list_datatype(avail, type) ==
    IF get_root_gsv_knob(avail) THEN "List" ELSE type

\* set_list_options(path, options): gsv.setListOptions(path, list(options))
set_list_options(avail, old, options) ==
    IF get_root_gsv_knob(avail) THEN options ELSE old

\* set_value(path, value): gsv.setGsvValue(path, value)
set_value(avail, old, value) ==
    IF get_root_gsv_knob(avail) THEN value ELSE old

\* a fallback that ignores whether a default was passed
default_for_AlwaysFirst(screens, default_screen) ==
    IF screens # <<>> THEN screens[1] ELSE default_screen

\* ensure_screen_list, lines 100-101: the default falls back to screens[0]
default_for(screens, default_screen) ==
    IF default_screen = None /\ screens # <<>> THEN screens[1] ELSE default_screen

ensure_screen_list(screens, default_screen, avail) ==
    /\ gsvType' = ensure_list_datatype(avail, gsvType)
    /\ gsvOptions' = set_list_options(avail, gsvOptions, screens)
    /\ LET d == default_for(screens, default_screen)
       IN gsvValue' = IF Truthy(d) THEN set_value(avail, gsvValue, d) ELSE gsvValue
    /\ lastCall' = [called |-> TRUE, screens |-> screens, default |-> default_screen,
                    avail |-> avail, before |-> gsvValue]
    /\ UNCHANGED <<renderVars, wrapVars, dagVars>>

\* ------------------------------------------------ render_hooks.py: data

\* _RESERVED_KNOBS
_RESERVED_KNOBS ==
    { "name", "label", "xpos", "ypos", "selected", "hide_input", "note_font",
      "note_font_size", "note_font_color", "tile_color", "gl_color", "cached",
      "knobChanged", "help", "onCreate", "onDestroy", "node_class" }

\* _DEFAULT_WRITE_KNOBS
_DEFAULT_WRITE_KNOBS ==
    << "file", "file_type", "channels", "views", "colorspace", "proxy",
       "first", "last", "use_limit", "create_directories" >>

Range(f) == { f[i] : i \in DOMAIN f }

\* knobs every host node carries: the housekeeping knobs and `disable`
CommonKnobs == _RESERVED_KNOBS \cup {"disable"}

\* knob names of a node by class: a Write carries the default list and more
\* (`raw` stands for its further knobs), a publishable Group carries
\* publish_instance
KnobsOf(cls, publish) ==
    CommonKnobs
    \cup (IF cls = "Write" THEN Range(_DEFAULT_WRITE_KNOBS) \cup {"raw"} ELSE {})
    \cup (IF publish THEN {"publish_instance"} ELSE {})

\* A string knob's text is a sequence of tokens: a word, "," or " ".
IsBlank(txt) == \A i \in DOMAIN txt : txt[i] = " "

RECURSIVE Join(_)
\* ", ".join(names)
Join(names) ==
    IF names = <<>> THEN <<>>
    ELSE IF Len(names) = 1 THEN <<names[1]>>
    ELSE <<names[1], ",", " ">> \o Join(Tail(names))

RECURSIVE Split(_, _)
\* raw.split(","): the pieces between commas, `cur` being the piece so far
Split(txt, cur) ==
    IF txt = <<>> THEN <<cur>>
    ELSE IF Head(txt) = "," THEN <<cur>> \o Split(Tail(txt), <<>>)
    ELSE Split(Tail(txt), Append(cur, Head(txt)))

RECURSIVE Strip(_)
\* s.strip() on a piece
Strip(piece) ==
    IF piece = <<>> THEN <<>>
    ELSE IF Head(piece) = " " THEN Strip(Tail(piece))
    ELSE IF Last(piece) = " " THEN Strip(Front(piece))
    ELSE piece

\* the name a stripped piece spells: one word is that word; anything longer
\* (words run together or separated by blanks) is the name of no knob
NameOf(piece) == IF Len(piece) = 1 THEN piece[1] ELSE "<no such knob>"

RECURSIVE StripAll(_)
\* [s.strip() for s in pieces if s.strip()]
StripAll(pieces) ==
    IF pieces = <<>> THEN <<>>
    ELSE LET p == Strip(Head(pieces))
         IN (IF p = <<>> THEN <<>> ELSE <<NameOf(p)>>) \o StripAll(Tail(pieces))

\* a wrapper's own knobs are an ordered list of [name, kind]; a knob shows on
\* the tab opened by the last Tab knob before it
KnobNames(knobs) == { knobs[i].name : i \in DOMAIN knobs }
HasKnob(g, name) == name \in CommonKnobs \cup {"gsv"} \cup KnobNames(g.knobs)

\* _ensure_tab
_ensure_tab(g, name) ==
    IF HasKnob(g, name) THEN g
    ELSE [g EXCEPT !.knobs = Append(@, [name |-> name, kind |-> "Tab"])]

\* _ensure_management_tab: the presence tests read one snapshot of the knobs
\* taken after the tab was ensured
_ensure_management_tab(g, default_csv) ==
    LET g1 == _ensure_tab(g, "bcn_wrapper")
        g2 == IF HasKnob(g1, "bcn_label") THEN g1
              ELSE [g1 EXCEPT !.knobs = Append(@, [name |-> "bcn_label", kind |-> "Text"])]
        g3 == IF HasKnob(g1, "bcn_knob_whitelist") THEN g2
              ELSE [g2 EXCEPT !.knobs = Append(@, [name |-> "bcn_knob_whitelist", kind |-> "String"]),
                              !.whitelist = default_csv]
        g4 == IF HasKnob(g1, "bcn_refresh") THEN g3
              ELSE [g3 EXCEPT !.knobs = Append(@, [name |-> "bcn_refresh", kind |-> "PyScript"])]
    IN g4

\* a link test that does not look at the knobs the wrapper already has
AddsLink_NoDuplicateTest(g, src, name) ==
    /\ name \notin _RESERVED_KNOBS
    /\ name \in KnobsOf(src.cls, src.publish)

\* _add_link_knob, lines 121-126: whether a link is added
AddsLink(g, src, name) ==
    /\ name \notin _RESERVED_KNOBS
    /\ ~HasKnob(g, name)
    /\ name \in KnobsOf(src.cls, src.publish)

\* _add_link_knob: the link is appended to the wrapper's knobs
_add_link_knob(g, src, name) ==
    IF AddsLink(g, src, name)
    THEN [g EXCEPT !.knobs = Append(@, [name |-> name, kind |-> "Link"])]
    ELSE g

\* _add_link_knob's return value: False at each early return, True after
\* group.addKnob(link)
_add_link_knob_returns(g, src, name) ==
    /\ name \notin _RESERVED_KNOBS
    /\ ~HasKnob(g, name)
    /\ name \in KnobsOf(src.cls, src.publish)

\* WriteKnobPromoter._group_whitelist: the parsed CSV; None, which its only
\* caller tests for truth like the empty list, is the empty list here
_group_whitelist(g) ==
    IF HasKnob(g, "bcn_knob_whitelist") /\ ~IsBlank(g.whitelist)
    THEN StripAll(Split(g.whitelist, <<>>))
    ELSE <<>>

\* WriteKnobPromoter._knob_list_for
_knob_list_for(cfg, g, write_node) ==
    LET override == _group_whitelist(g)
        ft == IF "file_type" \in KnobsOf(write_node.cls, write_node.publish)
              THEN write_node.fileType ELSE None
    IN IF override # <<>> THEN override
       ELSE IF Truthy(ft) /\ ft \in DOMAIN cfg.per_filetype_knobs
            THEN cfg.per_filetype_knobs[ft]
       ELSE cfg.default_knobs

RECURSIVE AddLinks(_, _, _)
\* the loop of expose over the chosen list
AddLinks(g, src, names) ==
    IF names = <<>> THEN g
    ELSE AddLinks(_add_link_knob(g, src, Head(names)), src, Tail(names))

\* WriteKnobPromoter.expose: the wrapper after the call (the tile colour it
\* also sets is left out)
expose(cfg, g, write_node) ==
    LET g1 == _ensure_tab(g, cfg.write_tab_label)
        g2 == _ensure_management_tab(g1, Join(cfg.default_knobs))
        g3 == AddLinks(g2, write_node, _knob_list_for(cfg, g2, write_node))
    IN [g3 EXCEPT !.label = IF cfg.show_scope_on_label THEN "[value gsv]" ELSE @]

RECURSIVE CountAdded(_, _, _)
\* `added` in the loop of expose: one more for each True of _add_link_knob
CountAdded(g, src, names) ==
    IF names = <<>> THEN 0
    ELSE (IF _add_link_knob_returns(g, src, Head(names)) THEN 1 ELSE 0)
         + CountAdded(_add_link_knob(g, src, Head(names)), src, Tail(names))

\* the number expose returns
exposeCount(cfg, g, write_node) ==
    LET g1 == _ensure_tab(g, cfg.write_tab_label)
        g2 == _ensure_management_tab(g1, Join(cfg.default_knobs))
    IN CountAdded(g2, write_node, _knob_list_for(cfg, g2, write_node))

\* no per-filetype mapping: None, or a mapping without keys
NoMapping == [ft \in {} |-> <<>>]

\* WritePromoteConfig(default_knobs=_DEFAULT_WRITE_KNOBS)
DefaultCfg ==
    [default_knobs |-> _DEFAULT_WRITE_KNOBS, per_filetype_knobs |-> NoMapping,
     write_tab_label |-> "Write", show_scope_on_label |-> TRUE]

\* ------------------------------------------------ render_hooks.py: the graph

\* node ids: 1 and 2 are the artist's nodes, 3 is the wrapper once made
NodeIds == {1, 2, 3}

NoNode ==
    [exists |-> FALSE, cls |-> "", name |-> <<>>, parent |-> 0, publish |-> FALSE,
     fileType |-> "", legacy |-> FALSE, knobs |-> <<>>, whitelist |-> <<>>,
     label |-> ""]

NoOp ==
    [op |-> "none", arg |-> 0, target |-> 0, ret |-> 0, raised |-> FALSE,
     msg |-> "", begins |-> 0, ends |-> 0, fail |-> "none", wanted |-> <<>>,
     taken |-> FALSE, cfg |-> DefaultCfg, override |-> <<>>, list |-> <<>>,
     added |-> 0, preLinks |-> {}]

AtRoot == { n \in NodeIds : nodes[n].exists /\ nodes[n].parent = 0 }
InsideOf(g) == { n \in NodeIds : nodes[n].exists /\ nodes[n].parent = g }
LinkNames(g) == { g.knobs[i].name : i \in { j \in DOMAIN g.knobs : g.knobs[j].kind = "Link" } }

\* _sanitize_knob_scripts: the "python:" prefixes are dropped
_sanitize_knob_scripts(node) == [node EXCEPT !.legacy = FALSE]

\* the host's Node.setName: the name as asked when it is free among `used`,
\* else made unique by a number
HostSetName(used, want) ==
    IF want \notin used THEN want
    ELSE IF Append(want, "1") \notin used THEN Append(want, "1")
    ELSE Append(want, "2")

\* a class test that lets any Group through
Accepts_AnyGroup(node_class, has_publish_knob) ==
    node_class = "Write" \/ node_class = "Group"

\* encapsulate_write_with_variable_group, line 419
Accepts(node_class, has_publish_knob) ==
    ~(node_class # "Write" /\ ~(node_class = "Group" /\ has_publish_knob))

\* an undo.end only on the way out of a complete run
UndoEnds_OnlyAtEnd(begun, fail) == IF begun /\ fail = "none" THEN 1 ELSE 0

\* the finally clause, lines 499-504: undo.end() once when undo.begin went
\* through, on every way out of the try block
UndoEnds(begun, fail) == IF begun THEN 1 ELSE 0

\* the message of the early returns, lines 399-421; "" when the call goes on
RejectMsg(t) ==
    IF t = 0 THEN "Select a Write node first"
    ELSE IF ~nodes[t].exists THEN "Unable to determine node class"
    ELSE IF ~Accepts(nodes[t].cls, "publish_instance" \in KnobsOf(nodes[t].cls, nodes[t].publish))
         THEN "Select a Write node or a Group with a publish_instance knob"
    ELSE ""

\* the node a call with argument `arg` works on: the argument, else a selected
\* node; 0 when nothing is selected (nuke.selectedNode() raises)
Resolves(arg, t) ==
    \/ arg # 0 /\ t = arg
    \/ arg = 0 /\ selected = {} /\ t = 0
    \/ arg = 0 /\ t \in selected

\* encapsulate_write_with_variable_group(node), on the node t that `arg`
\* resolves to.  beginOk: undo.begin did not raise.  fail: which host call
\* fails, if any: "collapse" (the collapse gives no group), "find" (no internal
\* node is found), "expose" (expose raises, on its first host call).  On a
\* failed collapse the node stays selected next to the earlier selection; on
\* success the new group is the selection.
encapsulate_write_with_variable_group(arg, t) ==
    /\ Resolves(arg, t)
    /\ t # 0 /\ nodes[t].exists => nodes[t].parent = 0
    /\ LET msg == RejectMsg(t)
           w == 3
           original_name == nodes[t].name
           wanted == Append(original_name, "_VG")
           target == _sanitize_knob_scripts(nodes[t])
           used == { nodes[n].name : n \in AtRoot \ {t} }
           group == [NoNode EXCEPT !.exists = TRUE, !.cls = "VariableGroup",
                                   !.name = HostSetName(used, wanted)]
           inner == [target EXCEPT !.parent = w]
           op == [NoOp EXCEPT !.op = "encapsulate", !.arg = arg, !.target = t]
       IN IF msg # ""
          THEN /\ lastOp' = [op EXCEPT !.msg = msg]
               /\ UNCHANGED <<nodes, selected, undoDepth>>
          ELSE \E beginOk \in BOOLEAN, fail \in {"none", "collapse", "find", "expose"} :
               LET begins == IF beginOk THEN 1 ELSE 0
                   ends == UndoEnds(beginOk, fail)
               IN
               /\ ~nodes[w].exists
               /\ undoDepth' = undoDepth + begins - ends
               /\ IF fail = "collapse"
                  THEN /\ nodes' = [nodes EXCEPT ![t] = target]
                       /\ selected' = selected \cup {t}
                       /\ lastOp' = [op EXCEPT !.begins = begins, !.ends = ends,
                                               !.fail = fail]
                  ELSE /\ selected' = {w}
                       /\ nodes' = [nodes EXCEPT
                             ![t] = inner,
                             ![w] = IF fail = "none"
                                    THEN [expose(DefaultCfg, group, inner)
                                             EXCEPT !.label = "[value gsv]"]
                                    ELSE group]
                       /\ lastOp' = [op EXCEPT
                             !.begins = begins, !.ends = ends, !.fail = fail,
                             !.ret = IF fail = "expose" THEN 0 ELSE w,
                             !.raised = (fail = "expose"),
                             !.msg = IF fail = "find"
                                     THEN "The VariableGroup does not contain the expected node"
                                     ELSE "",
                             !.wanted = wanted,
                             !.taken = (wanted \in used),
                             !.added = IF fail = "none"
                                       THEN exposeCount(DefaultCfg, group, inner) ELSE 0]
    /\ UNCHANGED <<renderVars, gsvVars, lastCall, dagVars>>

\* _find_internal_node(group): the node collapsed into the group
_find_internal_node(g) == InsideOf(g)

\* what a call of expose on group g leaves in the history
ExposeOp(op, cfg, g, t) ==
    [op EXCEPT !.cfg = cfg,
               !.override = _group_whitelist(nodes[g]),
               !.list = _knob_list_for(cfg,
                            _ensure_management_tab(_ensure_tab(nodes[g], cfg.write_tab_label),
                                                   Join(cfg.default_knobs)),
                            nodes[t]),
               !.added = exposeCount(cfg, nodes[g], nodes[t]),
               !.preLinks = LinkNames(nodes[g])]

\* refresh_variable_group_links(group): every script knob of the node and of
\* the nodes inside it is sanitized first, whatever the node's class
refresh_variable_group_links(g) ==
    /\ g \in AtRoot
    /\ LET clean == [n \in NodeIds |->
                        IF n = g \/ n \in InsideOf(g)
                        THEN _sanitize_knob_scripts(nodes[n]) ELSE nodes[n]]
           op == [NoOp EXCEPT !.op = "refresh", !.arg = g, !.target = g]
       IN IF nodes[g].cls # "VariableGroup" \/ _find_internal_node(g) = {}
          THEN /\ nodes' = clean
               /\ lastOp' = op
          ELSE \E t \in _find_internal_node(g) :
               /\ nodes' = [clean EXCEPT ![g] = expose(DefaultCfg, clean[g], clean[t])]
               /\ lastOp' = [ExposeOp(op, DefaultCfg, g, t) EXCEPT !.ret = g]
    /\ UNCHANGED <<selected, undoDepth, renderVars, gsvVars, lastCall, dagVars>>

\* configurations a caller of WriteKnobPromoter may pass
PerExr == [ft \in {"exr"} |-> <<"channels", "raw">>]
Cfgs ==
    { DefaultCfg,
      [DefaultCfg EXCEPT !.default_knobs = <<"file">>, !.per_filetype_knobs = PerExr],
      [DefaultCfg EXCEPT !.default_knobs = <<>>, !.per_filetype_knobs = PerExr] }

\* WriteKnobPromoter(cfg).expose(group, write_node), called on a VariableGroup
\* and the node inside it
ExposeCall(cfg, g) ==
    /\ g \in AtRoot
    /\ nodes[g].cls = "VariableGroup"
    /\ \E t \in InsideOf(g) :
          /\ nodes' = [nodes EXCEPT ![g] = expose(cfg, nodes[g], nodes[t])]
          /\ lastOp' = [ExposeOp([NoOp EXCEPT !.op = "expose", !.arg = g, !.target = t],
                                 cfg, g, t) EXCEPT !.ret = g]
    /\ UNCHANGED <<selected, undoDepth, renderVars, gsvVars, lastCall, dagVars>>

\* the names an artist may type into the whitelist: one on the default list,
\* one further Write knob, one the wrapper has itself, a reserved one, and one
\* that is no knob
EditNames == {"file", "raw", "disable", "name", "bogus"}

WhitelistEdits ==
    { Join(l) : l \in SeqsUpTo(EditNames, MaxCsv) } \cup { <<" ">>, <<",", " ">> }

\* the artist edits the bcn_knob_whitelist field of a wrapper
EditWhitelist(g, txt) ==
    /\ g \in AtRoot
    /\ HasKnob(nodes[g], "bcn_knob_whitelist")
    /\ nodes' = [nodes EXCEPT ![g].whitelist = txt]
    /\ lastOp' = [NoOp EXCEPT !.op = "edit", !.arg = g, !.target = g]
    /\ UNCHANGED <<selected, undoDepth, renderVars, gsvVars, lastCall, dagVars>>

\* the artist changes the selection
Select(S) ==
    /\ S \subseteq AtRoot
    /\ selected' = S
    /\ lastOp' = [NoOp EXCEPT !.op = "select"]
    /\ UNCHANGED <<nodes, undoDepth, renderVars, gsvVars, lastCall, dagVars>>

\* ------------------------------------------------------- specifications

\* an empty node graph
\* ------------------------------------------------- the positioned graph

\* the nodes of the script before a tool runs, and the ids new nodes get
UserNodes == {1, 2, 3}
NewNodes == {4, 5, 6, 7, 8, 9}
DagIds == UserNodes \cup NewNodes

\* the grid positions nodes are laid out on
Xs == {0, 1}
Ys == {0, 1, 2}

\* a node: class, position, inputs (0 for none), the in1 and label knobs as
\* token sequences, the channels of its output as <<layer, channel>> pairs
NoDagNode == [exists |-> FALSE, cls |-> "", x |-> 0, y |-> 0, inputs |-> <<>>,
              in1 |-> <<>>, channels |-> {}, label |-> <<>>, operation |-> ""]

NoDagOp == [op |-> "", sel |-> {}, pre |-> [n \in DagIds |-> NoDagNode],
            created |-> 0, streak |-> 0, msg |-> "", node |-> 0,
            layers |-> <<>>, shuffles |-> <<>>, merges |-> <<>>,
            dependents |-> {}, final |-> 0]

NoDag ==
    /\ dag = [n \in DagIds |-> NoDagNode]
    /\ dagSel = {}
    /\ dagOp = NoDagOp

\* the id of the node the host creates next; 0 when the ids are used up
FreeId(g) ==
    IF \A n \in NewNodes : g[n].exists THEN 0
    ELSE CHOOSE n \in NewNodes :
            ~g[n].exists /\ \A m \in NewNodes : ~g[m].exists => n <= m

\* ---------------------------------------------------------------- elbows

\* a test that never finds a Dot
already_has_dot_at_position_Never(g, connection_node, x, y) == FALSE

\* already_has_dot_at_position: an input of connection_node is a Dot at (x, y)
already_has_dot_at_position(g, connection_node, x, y) ==
    \E idx \in DOMAIN g[connection_node].inputs :
        LET inp == g[connection_node].inputs[idx]
        IN /\ inp # 0
           /\ g[inp].cls = "Dot"
           /\ g[inp].x = x
           /\ g[inp].y = y

\* create_dot_between_nodes on the run's state st = [g, visited, created, full]
create_dot_between_nodes(st, input_node, current_node, input_index) ==
    LET dot_x == st.g[input_node].x
        dot_y == st.g[current_node].y
        dot == FreeId(st.g)
    IN IF already_has_dot_at_position(st.g, current_node, dot_x, dot_y)
       THEN st
       ELSE IF dot = 0 THEN [st EXCEPT !.full = TRUE]
       ELSE [st EXCEPT
               !.g = [@ EXCEPT
                        ![dot] = [NoDagNode EXCEPT !.exists = TRUE,
                                     !.cls = "Dot", !.x = dot_x, !.y = dot_y,
                                     !.inputs = <<input_node>>],
                        ![current_node].inputs[input_index] = dot],
               !.created = @ + 1]

RECURSIVE process_node(_, _)
RECURSIVE process_inputs(_, _, _)
\* process_node, lines 62-64: a node is processed once
process_node(st, node) ==
    IF node \in st.visited THEN st
    ELSE process_inputs([st EXCEPT !.visited = @ \cup {node}], node, 1)

\* process_node, lines 67-80: the loop over the node's inputs, from input i on
process_inputs(st, node, i) ==
    IF i > Len(st.g[node].inputs) THEN st
    ELSE LET input_node == st.g[node].inputs[i]
             higher_input == st.g[input_node].y < st.g[node].y
             x_misaligned == st.g[input_node].x # st.g[node].x
             st1 == IF higher_input /\ x_misaligned
                    THEN create_dot_between_nodes(st, input_node, node, i)
                    ELSE st
         IN IF input_node = 0 THEN process_inputs(st, node, i + 1)
            ELSE process_inputs(process_node(st1, input_node), node, i + 1)

RECURSIVE process_selected(_, _)
\* lines 82-85: process_node for each selected node, sharing the visited set
process_selected(st, S) ==
    IF S = {} THEN st
    ELSE LET sel_node == CHOOSE n \in S : \A m \in S : m <= n
         IN process_selected(process_node(st, sel_node), S \ {sel_node})

\* elbows.organize_node_streams
organize_node_streams ==
    LET st == process_selected([g |-> dag, visited |-> {}, created |-> 0,
                                full |-> FALSE], dagSel)
    IN /\ ~st.full
       /\ dagOp.streak < MaxRuns
       /\ dag' = st.g
       /\ dagOp' = [NoDagOp EXCEPT !.op = "organize", !.sel = dagSel,
                       !.pre = dag, !.created = st.created,
                       !.streak = dagOp.streak + 1]
       /\ UNCHANGED <<dagSel, renderVars, gsvVars, lastCall, wrapVars>>

\* the user selects nodes of the graph
SelectNodes(S) ==
    /\ S # dagSel
    /\ \A n \in S : dag[n].exists
    /\ dagSel' = S
    /\ dagOp' = [NoDagOp EXCEPT !.op = "select", !.sel = S, !.pre = dag]
    /\ UNCHANGED <<dag, renderVars, gsvVars, lastCall, wrapVars>>

\* ------------------------------------------------- split_lightgroups

\* vertical offset of the new Shuffle2 nodes
y_offset == 150

\* the words layer names are made of, in the order of their characters' codes
CodeOrder == <<"Dome", "Lab", "_", "btm", "key", "rgba", "spec", "specular">>

Rank(tok) == CHOOSE i \in DOMAIN CodeOrder : CodeOrder[i] = tok

\* str.startswith
StartsWith(str, prefix) ==
    /\ Len(str) >= Len(prefix)
    /\ SubSeq(str, 1, Len(prefix)) = prefix

RECURSIVE StrLess(_, _)
\* str < str, as list.sort compares
StrLess(a, b) ==
    IF a = <<>> THEN b # <<>>
    ELSE IF b = <<>> THEN FALSE
    ELSE IF Head(a) = Head(b) THEN StrLess(Tail(a), Tail(b))
    ELSE Rank(Head(a)) < Rank(Head(b))

RECURSIVE Sort(_)
\* list.sort of the strings of S
Sort(S) ==
    IF S = {} THEN <<>>
    ELSE LET least == CHOOSE a \in S : \A b \in S \ {a} : StrLess(a, b)
         IN <<least>> \o Sort(S \ {least})

\* lines 51-54: the layer names of the channels of the input
layer_names(g, input_node) == { channel[1] : channel \in g[input_node].channels }

\* lines 57-67: the lightgroup layers of the pass, sorted
lightgroup_layers(g, input_node, pass_name) ==
    Sort({ layer \in layer_names(g, input_node) :
              StartsWith(layer, pass_name \o <<"_">>) })

\* a test that lets any class of node through
SplitMsg_AnyClass(g, selected_node) ==
    IF selected_node = 0 THEN "Please select a Shuffle node first."
    ELSE IF g[selected_node].in1 = <<>>
    THEN "The selected Shuffle2 node's 'in1' knob is empty."
    ELSE IF g[selected_node].inputs[1] = 0
    THEN "The selected Shuffle node has no input."
    ELSE IF lightgroup_layers(g, g[selected_node].inputs[1],
                              g[selected_node].in1) = <<>>
    THEN "No lightgroup variants found for pass"
    ELSE ""

\* lines 27-64: the message of the early returns; "" when the split goes on
SplitMsg(g, selected_node) ==
    IF selected_node = 0 THEN "Please select a Shuffle node first."
    ELSE IF g[selected_node].cls # "Shuffle2"
    THEN "Selected node must be a Shuffle2 node."
    ELSE IF g[selected_node].in1 = <<>>
    THEN "The selected Shuffle2 node's 'in1' knob is empty."
    ELSE IF g[selected_node].inputs[1] = 0
    THEN "The selected Shuffle node has no input."
    ELSE IF lightgroup_layers(g, g[selected_node].inputs[1],
                              g[selected_node].in1) = <<>>
    THEN "No lightgroup variants found for pass"
    ELSE ""

RECURSIVE FreeIds(_, _)
\* the ids the host gives the next k nodes it creates
FreeIds(g, k) ==
    IF k = 0 THEN <<>>
    ELSE <<FreeId(g)>> \o FreeIds([g EXCEPT ![FreeId(g)].exists = TRUE], k - 1)

\* lines 81-99: the Shuffle2 made for the i-th layer
NewShuffle(input_node, layer, i, original_x, original_y) ==
    [NoDagNode EXCEPT !.exists = TRUE, !.cls = "Shuffle2",
        !.inputs = <<input_node, 0>>, !.label = layer, !.in1 = layer,
        !.x = original_x + (i - 1) * 120, !.y = original_y + y_offset]

\* a chain in which every merge takes the first shuffle as its B input
MergeB_AlwaysFirst(ids, n, i) == ids[1]

\* lines 104, 112, 120: the B input of the merge made for shuffle i (i >= 2):
\* the first shuffle, then the merge made before
MergeB(ids, n, i) == IF i = 2 THEN ids[1] ELSE ids[n + i - 2]

\* lines 109-120: the Merge2 made for shuffle i, ids being the new nodes' ids
NewMerge(ids, n, i, original_x, original_y) ==
    [NoDagNode EXCEPT !.exists = TRUE, !.cls = "Merge2", !.operation = "plus",
        !.inputs = <<MergeB(ids, n, i), ids[i]>>,
        !.x = original_x + (i - 1) * 120,
        !.y = original_y + (y_offset + 120)]

\* a reconnection that stops at the first input found
Reconnect_FirstOnly(inputs, selected_node, final_output) ==
    [i \in DOMAIN inputs |->
        IF inputs[i] = selected_node
           /\ \A j \in DOMAIN inputs : j < i => inputs[j] # selected_node
        THEN final_output ELSE inputs[i]]

\* lines 129-131: every input of a dependent that is the original node is set
\* to the final output
Reconnect(inputs, selected_node, final_output) ==
    [i \in DOMAIN inputs |->
        IF inputs[i] = selected_node THEN final_output ELSE inputs[i]]

\* Node.dependent, line 74: the nodes with an input from the node
dependent(g, node) ==
    { d \in DagIds : g[d].exists /\ \E i \in DOMAIN g[d].inputs : g[d].inputs[i] = node }

\* split_lightgroups_from_pass, node being what nuke.selectedNode returns
\* (0 when it raises ValueError: nothing is selected)
split_lightgroups_from_pass(selected_node) ==
    /\ IF dagSel = {} THEN selected_node = 0 ELSE selected_node \in dagSel
    /\ LET msg == SplitMsg(dag, selected_node)
           op == [NoDagOp EXCEPT !.op = "split", !.sel = dagSel, !.pre = dag,
                                 !.node = selected_node]
       IN IF msg # ""
          THEN /\ dagOp' = [op EXCEPT !.msg = msg]
               /\ UNCHANGED dag
          ELSE LET pass_name == dag[selected_node].in1
                   input_node == dag[selected_node].inputs[1]
                   layers == lightgroup_layers(dag, input_node, pass_name)
                   n == Len(layers)
                   original_x == dag[selected_node].x
                   original_y == dag[selected_node].y
                   original_dependents == dependent(dag, selected_node)
                   ids == FreeIds(dag, 2 * n - 1)
                   final_output == ids[2 * n - 1]
               IN /\ Cardinality({ m \in NewNodes : ~dag[m].exists }) >= 2 * n - 1
                  /\ dag' = [m \in DagIds |->
                       IF \E i \in 1..n : ids[i] = m
                       THEN LET i == CHOOSE i \in 1..n : ids[i] = m
                            IN NewShuffle(input_node, layers[i], i,
                                          original_x, original_y)
                       ELSE IF \E i \in 2..n : ids[n + i - 1] = m
                       THEN LET i == CHOOSE i \in 2..n : ids[n + i - 1] = m
                            IN NewMerge(ids, n, i, original_x, original_y)
                       ELSE IF m = selected_node
                       THEN [dag[m] EXCEPT !.inputs[1] = 0,
                                           !.x = original_x - 200,
                                           !.y = original_y]
                       ELSE IF m \in original_dependents
                       THEN [dag[m] EXCEPT !.inputs =
                               Reconnect(@, selected_node, final_output)]
                       ELSE dag[m]]
                  /\ dagOp' = [op EXCEPT !.layers = layers,
                                  !.shuffles = SubSeq(ids, 1, n),
                                  !.merges = SubSeq(ids, n + 1, 2 * n - 1),
                                  !.dependents = original_dependents,
                                  !.final = final_output,
                                  !.created = 2 * n - 1]
    /\ UNCHANGED <<dagSel, renderVars, gsvVars, lastCall, wrapVars>>

NoGraph ==
    /\ nodes = [n \in NodeIds |-> NoNode]
    /\ selected = {}
    /\ undoDepth = 0
    /\ lastOp = NoOp

InitRender ==
    /\ booted = FALSE
    /\ hooks = {}
    /\ saved = <<>>
    /\ renders = <<>>
    /\ ended = NoRender
    /\ gsvType = "List"
    /\ gsvOptions = <<"A", "B", "C">>
    /\ gsvValue \in Screens
    /\ lastCall = NoCall
    /\ NoGraph
    /\ NoDag

NextRender ==
    \/ InitPy
    \/ \E s \in Screens : RenderBegin(s)
    \/ FrameBegin
    \/ \E o \in {"ok", "fail"} : FrameEnd(o)
    \/ RenderEnd

SpecRender == InitRender /\ [][NextRender]_vars

InitGsv ==
    /\ booted = TRUE
    /\ hooks = {}
    /\ saved = <<>>
    /\ renders = <<>>
    /\ ended = NoRender
    /\ gsvType \in {"String", "List"}
    /\ gsvOptions = <<>>
    /\ gsvValue \in {"", "A"}
    /\ lastCall = NoCall
    /\ NoGraph
    /\ NoDag

NextGsv ==
    \E screens \in SeqsUpTo(Screens, MaxLen), d \in Screens \cup {"", None},
       avail \in BOOLEAN :
        ensure_screen_list(screens, d, avail)

SpecGsv == InitGsv /\ [][NextGsv]_vars

\* the kinds of node the artist may have: [class, publish_instance, file_type]
NodeKinds ==
    { <<"Write", FALSE, "exr">>, <<"Write", FALSE, "mov">>,
      <<"Group", TRUE, "">>, <<"Group", FALSE, "">>, <<"Blur", FALSE, "">> }

InitWrap ==
    /\ booted = TRUE
    /\ hooks = {}
    /\ saved = <<>>
    /\ renders = <<>>
    /\ ended = NoRender
    /\ gsvType = "List"
    /\ gsvOptions = <<"A", "B", "C">>
    /\ gsvValue = "A"
    /\ lastCall = NoCall
    /\ \E k \in NodeKinds, legacy \in BOOLEAN, other \in {<<"B">>, <<"A", "_VG">>} :
          nodes = [n \in NodeIds |->
                     IF n = 1
                     THEN [NoNode EXCEPT !.exists = TRUE, !.cls = k[1], !.name = <<"A">>,
                                         !.publish = k[2], !.fileType = k[3],
                                         !.legacy = legacy]
                     ELSE IF n = 2
                     THEN [NoNode EXCEPT !.exists = TRUE, !.cls = "Blur", !.name = other]
                     ELSE NoNode]
    /\ selected \in SUBSET {1, 2}
    /\ undoDepth = 0
    /\ lastOp = NoOp
    /\ NoDag

NextWrap ==
    \/ \E arg \in {0} \cup NodeIds, t \in {0} \cup NodeIds :
          encapsulate_write_with_variable_group(arg, t)
    \/ \E g \in NodeIds : refresh_variable_group_links(g)
    \/ \E cfg \in Cfgs, g \in NodeIds : ExposeCall(cfg, g)
    \/ \E g \in NodeIds, txt \in WhitelistEdits : EditWhitelist(g, txt)
    \/ \E S \in SUBSET NodeIds : Select(S)

SpecWrap == InitWrap /\ [][NextWrap]_vars

\* the start-up state of the other parts, for the layout tools
HostIdle ==
    /\ booted = TRUE
    /\ hooks = {}
    /\ saved = <<>>
    /\ renders = <<>>
    /\ ended = NoRender
    /\ gsvType = "List"
    /\ gsvOptions = <<"A", "B", "C">>
    /\ gsvValue = "A"
    /\ lastCall = NoCall
    /\ NoGraph

\* a script of three two-input nodes on the grid, wired acyclically; only
\* differences of x matter, so the last node stands in the first column
InitElbows ==
    /\ HostIdle
    /\ \E xs \in [UserNodes -> Xs], ys \in [UserNodes -> Ys],
          ins \in [UserNodes -> (({0} \cup UserNodes) \X ({0} \cup UserNodes))] :
          /\ \A n \in UserNodes : \A i \in 1..2 : ins[n][i] < n
          /\ xs[3] = 0
          /\ dag = [n \in DagIds |->
                      IF n \in UserNodes
                      THEN [NoDagNode EXCEPT !.exists = TRUE, !.cls = "Node",
                               !.x = xs[n], !.y = ys[n], !.inputs = ins[n]]
                      ELSE NoDagNode]
    /\ dagSel = {}
    /\ dagOp = NoDagOp

NextElbows ==
    \/ organize_node_streams
    \/ \E S \in SUBSET DagIds : SelectNodes(S)

SpecElbows == InitElbows /\ [][NextElbows]_vars

\* the layers a multi-layer input may carry
InputLayers ==
    { {},
      {<<"rgba">>, <<"spec">>},
      {<<"rgba">>, <<"spec">>, <<"spec", "_", "key">>},
      {<<"spec", "_", "key">>, <<"spec", "_", "Dome">>, <<"specular", "_", "key">>},
      {<<"spec">>, <<"spec", "_", "Lab", "_", "btm">>, <<"spec", "_", "Lab">>,
       <<"spec", "_", "Dome">>} }

\* a script of a multi-layer source (1), a node on it (2) and a two-input node
\* below (3)
InitSplit ==
    /\ HostIdle
    /\ \E layers \in InputLayers, cls \in {"Shuffle2", "Blur"},
          in1 \in {<<>>, <<"spec">>, <<"rgba">>, <<"spec", "_", "Lab">>},
          in2 \in {<<0, 0>>, <<1, 0>>, <<1, 1>>},
          in3 \in {0, 1, 2} \X {0, 1, 2} :
          dag = [m \in DagIds |->
                   IF m = 1
                   THEN [NoDagNode EXCEPT !.exists = TRUE, !.cls = "Read",
                            !.inputs = <<>>,
                            !.channels = layers \X {"red", "green"}]
                   ELSE IF m = 2
                   THEN [NoDagNode EXCEPT !.exists = TRUE, !.cls = cls,
                            !.in1 = in1, !.inputs = in2, !.y = 100]
                   ELSE IF m = 3
                   THEN [NoDagNode EXCEPT !.exists = TRUE, !.cls = "Merge2",
                            !.operation = "over", !.inputs = in3, !.y = 200]
                   ELSE NoDagNode]
    /\ dagSel = {}
    /\ dagOp = NoDagOp

NextSplit ==
    \/ \E node \in {0} \cup DagIds : split_lightgroups_from_pass(node)
    \/ \E a, b \in DagIds : SelectNodes({a, b})
    \/ SelectNodes({})

SpecSplit == InitSplit /\ [][NextSplit]_vars

\* ================================================================ claims

InFrame == { i \in 1..Len(renders) : renders[i].phase = "frame" }

\* C1 (as stated): once init.py has run the frame hooks are installed, and
\* while a frame of a scoped node's render is evaluated the global scope
\* variable is that node's scope value and the value active before the render
\* is on top of the save stack.
C1_RenderStartSavesAndSets ==
    /\ booted => InstallRenderCallbacks \subseteq hooks
    /\ (renders # <<>> /\ Last(renders).phase = "frame") =>
          /\ gsvValue = Last(renders).scope
          /\ saved # <<>>
          /\ Last(saved) = Last(renders).pre

C3_NestedRestoreIsLIFO ==
    [][ /\ (Len(renders) >= 2 /\ renders' = Front(renders)) =>
              gsvValue' = renders[Len(renders) - 1].scope
        /\ (Len(renders) = 1 /\ renders' = <<>>) =>
              gsvValue' = renders[1].pre ]_vars

\* C4 (as stated): the save stack is as deep as the number of scoped renders
\* whose frame is in progress, and once every started render has completed
\* the stack is empty and the global scope variable is back at its value
\* before the outermost render.
C4_PushPopBalance ==
    /\ Len(saved) = Cardinality(InFrame)
    /\ (renders = <<>> /\ ended.done) =>
          (saved = <<>> /\ gsvValue = ended.pre)

\* C5 (as stated): the enforcement is the before/after frame-evaluation hook
\* pair, so whatever the host resolves for a frame of a scoped node's render
\* is that node's scope value.
C5_ResolvedUnderNodeScope ==
    /\ hooks \subseteq {"beforeFrameRender", "afterFrameRender"}
    /\ \A i \in 1..Len(renders) :
          renders[i].phase = "frame" => renders[i].resolved = renders[i].scope

\* the tab a wrapper's i-th knob shows on: the last Tab knob before it
TabOf(knobs, i) ==
    LET tabs == { j \in 1..(i - 1) : knobs[j].kind = "Tab" }
    IN IF tabs = {} THEN ""
       ELSE knobs[CHOOSE j \in tabs : \A k \in tabs : k <= j].name

OnTab(knobs, tab) ==
    { knobs[i].name : i \in { j \in DOMAIN knobs : TabOf(knobs, j) = tab } }

\* C6: encapsulate_write_with_variable_group goes on only for a Write or for a
\* Group with a publish_instance knob; for any other target, for no selection
\* and for a node whose class cannot be read, the call shows a message, returns
\* None, begins no undo block and changes neither a node nor the selection.
C6_RejectsWithoutChange ==
    [][ (lastOp' # lastOp /\ lastOp'.op = "encapsulate") =>
          LET t == lastOp'.target
              ok == /\ t # 0
                    /\ nodes[t].exists
                    /\ \/ nodes[t].cls = "Write"
                       \/ nodes[t].cls = "Group" /\ nodes[t].publish
          IN IF ok
             THEN lastOp'.msg \notin { "Select a Write node first",
                                       "Unable to determine node class",
                    "Select a Write node or a Group with a publish_instance knob" }
             ELSE /\ lastOp'.msg # ""
                  /\ lastOp'.ret = 0
                  /\ ~lastOp'.raised
                  /\ lastOp'.begins = 0
                  /\ UNCHANGED <<nodes, selected, undoDepth>> ]_vars

\* C6 witness: a call on an unselected Group without publish_instance that
\* carries a legacy script was turned down; the script is still there.
C6_GroupWithoutPublishRejected ==
    /\ lastOp.op = "encapsulate"
    /\ lastOp.arg # 0
    /\ lastOp.msg = "Select a Write node or a Group with a publish_instance knob"
    /\ nodes[lastOp.target].cls = "Group"
    /\ nodes[lastOp.target].legacy
    /\ lastOp.target \notin selected
    /\ undoDepth = 0

\* C7 (as stated): after a successful encapsulate of a node named N the
\* wrapper is named N_VG, the node inside it is still named N, the link knobs
\* are on the wrapper's Write tab, the whitelist field and the Refresh button
\* are on its BCN Wrapper tab, and its label is "[value gsv]".
C7_WrapperNamedAndTabbed ==
    (lastOp.op = "encapsulate" /\ lastOp.ret # 0 /\ lastOp.fail = "none") =>
        LET g == nodes[lastOp.ret]
            inner == nodes[lastOp.target]
        IN /\ g.name = lastOp.wanted
           /\ inner.parent = lastOp.ret
           /\ Append(inner.name, "_VG") = lastOp.wanted
           /\ \E i \in DOMAIN g.knobs : g.knobs[i] = [name |-> "Write", kind |-> "Tab"]
           /\ LinkNames(g) =
                 Range(_DEFAULT_WRITE_KNOBS) \cap KnobsOf(inner.cls, inner.publish)
           /\ LinkNames(g) \subseteq OnTab(g.knobs, "Write")
           /\ {"bcn_knob_whitelist", "bcn_refresh"} \subseteq OnTab(g.knobs, "bcn_wrapper")
           /\ g.whitelist = Join(_DEFAULT_WRITE_KNOBS)
           /\ g.label = "[value gsv]"

\* C8 (as stated): right after a Refresh of a wrapper, the knobs exposed on it
\* as links are the names of its whitelist that the internal node has and that
\* are not reserved: a name added is exposed, a name removed is not.
C8_LinksFollowWhitelist ==
    (lastOp.op = "refresh" /\ lastOp.ret # 0) =>
        LET g == nodes[lastOp.ret]
        IN \A t \in InsideOf(lastOp.ret) :
              LinkNames(g) =
                 { n \in Range(StripAll(Split(g.whitelist, <<>>))) :
                      /\ n \in KnobsOf(nodes[t].cls, nodes[t].publish)
                      /\ n \notin _RESERVED_KNOBS }

\* C9 (as stated): the list expose works through is the whitelist the wrapper
\* provided when expose was called; without one, the per-filetype list when
\* the internal Write's file_type is mapped; the default list otherwise.
C9_KnobListPrecedence ==
    (lastOp.op = "expose") =>
        LET inner == nodes[lastOp.target]
            per == lastOp.cfg.per_filetype_knobs
        IN lastOp.list =
              IF lastOp.override # <<>> THEN lastOp.override
              ELSE IF inner.cls = "Write" /\ inner.fileType \in DOMAIN per
                   THEN per[inner.fileType]
              ELSE lastOp.cfg.default_knobs

C16_LinksWellFormed ==
    /\ \A g \in NodeIds :
          (nodes[g].exists /\ nodes[g].cls = "VariableGroup") =>
             /\ LinkNames(nodes[g]) \cap _RESERVED_KNOBS = {}
             /\ \A i, j \in DOMAIN nodes[g].knobs :
                   nodes[g].knobs[i].name = nodes[g].knobs[j].name => i = j
             /\ KnobNames(nodes[g].knobs) \cap (CommonKnobs \cup {"gsv"}) = {}
             /\ \A t \in InsideOf(g) :
                   LinkNames(nodes[g]) \subseteq KnobsOf(nodes[t].cls, nodes[t].publish)
    /\ (lastOp.op \in {"expose", "refresh", "encapsulate"} /\ lastOp.ret # 0) =>
          LET links == { i \in DOMAIN nodes[lastOp.ret].knobs :
                            nodes[lastOp.ret].knobs[i].kind = "Link" }
          IN lastOp.added = Cardinality(links) - Cardinality(lastOp.preLinks)

\* C16 witness: a Refresh of a wrapper that already has links, with a reserved
\* name as its whitelist, added nothing.
C16_ReservedNameRefreshed ==
    /\ lastOp.op = "refresh"
    /\ lastOp.ret # 0
    /\ nodes[lastOp.ret].whitelist = <<"name">>
    /\ lastOp.preLinks # {}
    /\ lastOp.added = 0

\* C17: every call of encapsulate_write_with_variable_group ends as many undo
\* blocks as it began: one when undo.begin went through, whatever the way out
\* (no group, no internal node, expose raising, completion), none when the
\* call was turned down or undo.begin failed; no undo block is ever left open.
C17_UndoBalanced ==
    /\ undoDepth = 0
    /\ lastOp.op = "encapsulate" =>
          /\ lastOp.ends = lastOp.begins
          /\ lastOp.begins \in {0, 1}
          /\ lastOp.msg \in { "Select a Write node first",
                              "Unable to determine node class",
                 "Select a Write node or a Group with a publish_instance knob" }
                => lastOp.begins = 0

\* C17 witness: a call that began an undo block left through expose raising.
C17_ExposeRaisedInUndoBlock ==
    /\ lastOp.op = "encapsulate"
    /\ lastOp.fail = "expose"
    /\ lastOp.raised
    /\ lastOp.begins = 1

RECURSIVE Upstream(_, _)
\* the nodes of S and everything reachable through inputs from them in g
Upstream(g, S) ==
    LET next == { m \in DagIds :
                    \E n \in S : \E i \in DOMAIN g[n].inputs : g[n].inputs[i] = m }
    IN IF next \subseteq S THEN S ELSE Upstream(g, S \cup next)

\* input i of node n is a diagonal connection in g: its source is higher and
\* at another x
Diagonal(g, n, i) ==
    /\ g[n].inputs[i] # 0
    /\ g[g[n].inputs[i]].y < g[n].y
    /\ g[g[n].inputs[i]].x # g[n].x

\* C11: after organize_node_streams every input of a node upstream of the
\* selection that was a diagonal connection before the call goes through a Dot
\* at (source x, node y) fed by the source, also when two inputs of the node
\* have the same source or sources of equal x.
C11_DiagonalsGetElbows ==
    dagOp.op = "organize" =>
       \A n \in Upstream(dagOp.pre, dagOp.sel) :
          \A i \in DOMAIN dagOp.pre[n].inputs :
             Diagonal(dagOp.pre, n, i) =>
                LET src == dagOp.pre[n].inputs[i]
                    d == dag[n].inputs[i]
                IN /\ dag[d].cls = "Dot"
                   /\ dag[d].x = dagOp.pre[src].x
                   /\ dag[d].y = dagOp.pre[n].y
                   /\ dag[d].inputs = <<src>>

\* C12: no node has two Dot inputs at one position, and a run of
\* organize_node_streams straight after a run on the same selection creates no
\* Dot and changes no connection.
C12_NoDuplicateDotsIdempotent ==
    /\ \A n \in DagIds : \A i, j \in DOMAIN dag[n].inputs :
          ( /\ i # j
            /\ dag[n].inputs[i] # 0 /\ dag[n].inputs[j] # 0
            /\ dag[dag[n].inputs[i]].cls = "Dot"
            /\ dag[dag[n].inputs[j]].cls = "Dot" )
          => <<dag[dag[n].inputs[i]].x, dag[dag[n].inputs[i]].y>>
               # <<dag[dag[n].inputs[j]].x, dag[dag[n].inputs[j]].y>>
    /\ (dagOp.op = "organize" /\ dagOp.streak >= 2) =>
          /\ dagOp.created = 0
          /\ dag = dagOp.pre

\* C12 witness: a second run on a selection whose first run had to skip a Dot:
\* a node has a Dot input and, at the Dot's position, a still diagonal input.
C12_SecondRunAfterSkippedDot ==
    /\ dagOp.op = "organize"
    /\ dagOp.streak = 2
    /\ \E n \in dagOp.sel : \E i, j \in DOMAIN dag[n].inputs :
          /\ dag[n].inputs[i] # 0
          /\ dag[dag[n].inputs[i]].cls = "Dot"
          /\ Diagonal(dag, n, j)
          /\ dag[dag[n].inputs[j]].x = dag[dag[n].inputs[i]].x

\* the last call was a split that went through
SplitDone == dagOp.op = "split" /\ dagOp.msg = ""

\* the lightgroup layers of the split node's pass before the call
WantedLayers ==
    LET pre == dagOp.pre
        src == pre[dagOp.node].inputs[1]
    IN { ch[1] : ch \in { c \in pre[src].channels :
                            StartsWith(c[1], pre[dagOp.node].in1 \o <<"_">>) } }

\* the nodes the last call created
Created == { m \in DagIds : dag[m].exists /\ ~dagOp.pre[m].exists }

RECURSIVE Terms(_)
\* the nodes a chain of Merge2 nodes adds up, left to right
Terms(m) ==
    IF dag[m].cls = "Merge2"
    THEN Terms(dag[m].inputs[1]) \o Terms(dag[m].inputs[2])
    ELSE <<m>>

\* C13: a split of a Shuffle2 of pass P whose input has N >= 1 layers P_...
\* creates N Shuffle2 nodes, one per layer in sorted order, each on the
\* original source, and N-1 Merge2 plus nodes in a left-fold chain whose end
\* adds every new shuffle once.
C13_ShufflesAndMergeChain ==
    SplitDone =>
       LET n == Cardinality(WantedLayers)
           sh == dagOp.shuffles
           mg == dagOp.merges
           src == dagOp.pre[dagOp.node].inputs[1]
       IN /\ n >= 1
          /\ Len(sh) = n /\ Len(mg) = n - 1
          /\ Cardinality(Created) = 2 * n - 1
          /\ Created = Range(sh) \cup Range(mg)
          /\ \A i \in 1..n :
                /\ dag[sh[i]].cls = "Shuffle2"
                /\ dag[sh[i]].in1 \in WantedLayers
                /\ dag[sh[i]].inputs[1] = src
                /\ \A j \in 1..n : i < j => StrLess(dag[sh[i]].in1, dag[sh[j]].in1)
          /\ \A k \in 1..(n - 1) :
                /\ dag[mg[k]].cls = "Merge2"
                /\ dag[mg[k]].operation = "plus"
                /\ dag[mg[k]].inputs =
                      <<IF k = 1 THEN sh[1] ELSE mg[k - 1], sh[k + 1]>>
          /\ Terms(dagOp.final) = sh

\* C13 witness: a split into three lightgroups.
C13_SplitInThree ==
    /\ SplitDone
    /\ Cardinality(WantedLayers) = 3
    /\ Len(dagOp.merges) = 2

\* C14: when nothing is selected, the selected node is no Shuffle2, its in1 is
\* empty, it has no input 0 or the input has no layer of the pass, the call
\* shows a message and leaves the graph as it was.
C14_FailedSplitChangesNothing ==
    (/\ dagOp.op = "split"
     /\ \/ dagOp.sel = {}
        \/ dagOp.pre[dagOp.node].cls # "Shuffle2"
        \/ dagOp.pre[dagOp.node].in1 = <<>>
        \/ dagOp.pre[dagOp.node].inputs[1] = 0
        \/ WantedLayers = {})
    => /\ dagOp.msg # ""
       /\ dag = dagOp.pre
       /\ Created = {}

\* C14 witness: a Shuffle2 with a pass and an input that has no layer of it.
C14_NoLightgroupOfPass ==
    /\ dagOp.op = "split"
    /\ dagOp.node # 0
    /\ dagOp.pre[dagOp.node].cls = "Shuffle2"
    /\ dagOp.pre[dagOp.node].in1 # <<>>
    /\ dagOp.pre[dagOp.node].inputs[1] # 0
    /\ dagOp.pre[dagOp.pre[dagOp.node].inputs[1]].channels # {}
    /\ WantedLayers = {}

\* C15: after a split every input that came from the original Shuffle2 comes
\* from the end of the new chain (the one new shuffle when N = 1), no node has
\* the original as an input, the original has no input 0, and no other
\* connection of the graph as it was is changed.
C15_DependentsMovedToChainEnd ==
    SplitDone =>
       LET pre == dagOp.pre
           node == dagOp.node
           ends == { m \in Created :
                       \A c \in Created : \A i \in DOMAIN dag[c].inputs :
                          dag[c].inputs[i] # m }
       IN /\ ends = {dagOp.final}
          /\ Cardinality(WantedLayers) = 1 => dagOp.final = dagOp.shuffles[1]
          /\ \A m \in DagIds : \A i \in DOMAIN pre[m].inputs :
                /\ pre[m].inputs[i] = node => dag[m].inputs[i] = dagOp.final
                /\ (pre[m].inputs[i] # node /\ <<m, i>> # <<node, 1>>)
                      => dag[m].inputs[i] = pre[m].inputs[i]
          /\ \A m \in DagIds : \A i \in DOMAIN dag[m].inputs :
                dag[m].inputs[i] # node
          /\ dag[node].inputs[1] = 0

\* C15 witness: both inputs of a node came from the Shuffle2 that was split.
C15_BothInputsFromOriginal ==
    /\ SplitDone
    /\ \E m \in DagIds :
          /\ dagOp.pre[m].exists
          /\ dagOp.pre[m].inputs = <<dagOp.node, dagOp.node>>

====
